---- MODULE Spec2Model ----
(***************************************************************************)
(* Model of modules/3d-gen-desktop/src-tauri/src/main.rs: the native menu  *)
(* of the desktop shell (File > Settings, Logs, Import, Export > GLB, STL) *)
(* and the menu-event handler that forwards a clicked item's identifier to *)
(* the front-end as a "menu-action" event.                                 *)
(***************************************************************************)
EXTENDS Integers, Sequences, FiniteSets, TLC

VARIABLES
    pc,          \* "init" | "running" | "terminated" | "panicked"
    rejected,    \* creation steps the windowing layer rejects in this run
    buildLog,    \* creation steps build_menu attempted, in order
    menu,        \* the menu installed by the builder, NoMenu if none
    subscribed,  \* a front-end listener is attached to the event channel
    clicks,      \* identifiers of the menu events delivered so far
    emitted,     \* calls of app.emit so far: [event, payload, result]
    observed,    \* events seen by the attached listener: [event, payload]
    inflight     \* per delivery thread: the handler invocation in progress

vars == <<pc, rejected, buildLog, menu, subscribed, clicks, emitted, observed, inflight>>

----------------------------------------------------------------------------
(* Bounds *)

MaxClicks == 3
NThreads == 2

Threads == 1..NThreads

(* Identifiers the host shell may report in a menu event: the five the     *)
(* handler names, and identifiers it does not name.                        *)
Ids == {"menu_settings", "menu_logs", "menu_import", "menu_export_glb",
        "menu_export_stl", "menu_unknown", "menu_export"}

(* The creation calls of build_menu, named by the label they create.       *)
Steps == {"GLB", "STL", "Export", "Settings", "Logs", "Import", "File", "Menu"}

EmitResults == {"Ok", "Err"}

NoMenu == [kind |-> "none", id |-> "", text |-> "", enabled |-> FALSE, items |-> <<>>]
Idle == [busy |-> FALSE, id |-> "", calls |-> <<>>]

Last(s) == s[Len(s)]

----------------------------------------------------------------------------
(* Menu construction *)

(* MenuItem::with_id(app, id, text, enabled, None) *)
MenuItem(id, text, enabled) ==
    [kind |-> "item", id |-> id, text |-> text, enabled |-> enabled, items |-> <<>>]

(* Submenu::with_items(app, text, enabled, items); the identifier of a     *)
(* submenu is generated by the library.                                    *)
Submenu(text, enabled, items) ==
    [kind |-> "submenu", id |-> "<generated>", text |-> text, enabled |-> enabled, items |-> items]

(* Menu::with_items(app, items) *)
Menu(items) ==
    [kind |-> "menu", id |-> "<generated>", text |-> "", enabled |-> TRUE, items |-> items]

BuildErr(log) == [ok |-> FALSE, menu |-> NoMenu, log |-> log]

build_menu_skip(rej) ==
    IF "GLB" \in rej THEN BuildErr(<<"GLB">>) ELSE
    LET glb == MenuItem("menu_export_glb", "GLB", TRUE) IN
    IF "STL" \in rej THEN BuildErr(<<"GLB", "STL">>) ELSE
    LET stl == MenuItem("menu_export_stl", "STL", TRUE) IN
    IF "Export" \in rej THEN BuildErr(<<"GLB", "STL", "Export">>) ELSE
    LET export_menu == Submenu("Export", TRUE, <<glb, stl>>) IN
    IF "Settings" \in rej THEN BuildErr(<<"GLB", "STL", "Export", "Settings">>) ELSE
    LET settings == MenuItem("menu_settings", "Settings", TRUE) IN
    LET logs == IF "Logs" \in rej THEN <<>> ELSE <<MenuItem("menu_logs", "Logs", TRUE)>> IN
    IF "Import" \in rej
    THEN BuildErr(<<"GLB", "STL", "Export", "Settings", "Logs", "Import">>) ELSE
    LET import == MenuItem("menu_import", "Import", TRUE) IN
    IF "File" \in rej
    THEN BuildErr(<<"GLB", "STL", "Export", "Settings", "Logs", "Import", "File">>) ELSE
    LET file_menu == Submenu("File", TRUE, <<settings>> \o logs \o <<import, export_menu>>) IN
    IF "Menu" \in rej
    THEN BuildErr(<<"GLB", "STL", "Export", "Settings", "Logs", "Import", "File", "Menu">>)
    ELSE [ok |-> TRUE, menu |-> Menu(<<file_menu>>),
          log |-> <<"GLB", "STL", "Export", "Settings", "Logs", "Import", "File", "Menu">>]

build_menu_export_first(rej) ==
    IF "GLB" \in rej THEN BuildErr(<<"GLB">>) ELSE
    LET glb == MenuItem("menu_export_glb", "GLB", TRUE) IN
    IF "STL" \in rej THEN BuildErr(<<"GLB", "STL">>) ELSE
    LET stl == MenuItem("menu_export_stl", "STL", TRUE) IN
    IF "Export" \in rej THEN BuildErr(<<"GLB", "STL", "Export">>) ELSE
    LET export_menu == Submenu("Export", TRUE, <<glb, stl>>) IN
    IF "Settings" \in rej THEN BuildErr(<<"GLB", "STL", "Export", "Settings">>) ELSE
    LET settings == MenuItem("menu_settings", "Settings", TRUE) IN
    IF "Logs" \in rej THEN BuildErr(<<"GLB", "STL", "Export", "Settings", "Logs">>) ELSE
    LET logs == MenuItem("menu_logs", "Logs", TRUE) IN
    IF "Import" \in rej
    THEN BuildErr(<<"GLB", "STL", "Export", "Settings", "Logs", "Import">>) ELSE
    LET import == MenuItem("menu_import", "Import", TRUE) IN
    IF "File" \in rej
    THEN BuildErr(<<"GLB", "STL", "Export", "Settings", "Logs", "Import", "File">>) ELSE
    LET file_menu == Submenu("File", TRUE, <<export_menu, settings, logs, import>>) IN
    IF "Menu" \in rej
    THEN BuildErr(<<"GLB", "STL", "Export", "Settings", "Logs", "Import", "File", "Menu">>)
    ELSE [ok |-> TRUE, menu |-> Menu(<<file_menu>>),
          log |-> <<"GLB", "STL", "Export", "Settings", "Logs", "Import", "File", "Menu">>]

build_menu_dup_id(rej) ==
    IF "GLB" \in rej THEN BuildErr(<<"GLB">>) ELSE
    LET glb == MenuItem("menu_export_glb", "GLB", TRUE) IN
    IF "STL" \in rej THEN BuildErr(<<"GLB", "STL">>) ELSE
    LET stl == MenuItem("menu_export_glb", "STL", TRUE) IN
    IF "Export" \in rej THEN BuildErr(<<"GLB", "STL", "Export">>) ELSE
    LET export_menu == Submenu("Export", TRUE, <<glb, stl>>) IN
    IF "Settings" \in rej THEN BuildErr(<<"GLB", "STL", "Export", "Settings">>) ELSE
    LET settings == MenuItem("menu_settings", "Settings", TRUE) IN
    IF "Logs" \in rej THEN BuildErr(<<"GLB", "STL", "Export", "Settings", "Logs">>) ELSE
    LET logs == MenuItem("menu_logs", "Logs", TRUE) IN
    IF "Import" \in rej
    THEN BuildErr(<<"GLB", "STL", "Export", "Settings", "Logs", "Import">>) ELSE
    LET import == MenuItem("menu_import", "Import", TRUE) IN
    IF "File" \in rej
    THEN BuildErr(<<"GLB", "STL", "Export", "Settings", "Logs", "Import", "File">>) ELSE
    LET file_menu == Submenu("File", TRUE, <<settings, logs, import, export_menu>>) IN
    IF "Menu" \in rej
    THEN BuildErr(<<"GLB", "STL", "Export", "Settings", "Logs", "Import", "File", "Menu">>)
    ELSE [ok |-> TRUE, menu |-> Menu(<<file_menu>>),
          log |-> <<"GLB", "STL", "Export", "Settings", "Logs", "Import", "File", "Menu">>]

(* build_menu: each creation call is followed by `?`, so the first call    *)
(* the windowing layer rejects returns the error and nothing after it is   *)
(* evaluated.  rej is the set of calls the windowing layer rejects.        *)
build_menu(rej) ==
    IF "GLB" \in rej THEN BuildErr(<<"GLB">>) ELSE
    LET glb == MenuItem("menu_export_glb", "GLB", TRUE) IN
    IF "STL" \in rej THEN BuildErr(<<"GLB", "STL">>) ELSE
    LET stl == MenuItem("menu_export_stl", "STL", TRUE) IN
    IF "Export" \in rej THEN BuildErr(<<"GLB", "STL", "Export">>) ELSE
    LET export_menu == Submenu("Export", TRUE, <<glb, stl>>) IN
    IF "Settings" \in rej THEN BuildErr(<<"GLB", "STL", "Export", "Settings">>) ELSE
    LET settings == MenuItem("menu_settings", "Settings", TRUE) IN
    IF "Logs" \in rej THEN BuildErr(<<"GLB", "STL", "Export", "Settings", "Logs">>) ELSE
    LET logs == MenuItem("menu_logs", "Logs", TRUE) IN
    IF "Import" \in rej
    THEN BuildErr(<<"GLB", "STL", "Export", "Settings", "Logs", "Import">>) ELSE
    LET import == MenuItem("menu_import", "Import", TRUE) IN
    IF "File" \in rej
    THEN BuildErr(<<"GLB", "STL", "Export", "Settings", "Logs", "Import", "File">>) ELSE
    LET file_menu == Submenu("File", TRUE, <<settings, logs, import, export_menu>>) IN
    IF "Menu" \in rej
    THEN BuildErr(<<"GLB", "STL", "Export", "Settings", "Logs", "Import", "File", "Menu">>)
    ELSE [ok |-> TRUE, menu |-> Menu(<<file_menu>>),
          log |-> <<"GLB", "STL", "Export", "Settings", "Logs", "Import", "File", "Menu">>]

----------------------------------------------------------------------------
(* Event emission and dispatch *)

(* app.emit(event, payload): res is the Result the call returns.  On Ok    *)
(* the attached listener receives the event; on Err delivery is not        *)
(* guaranteed, dlv says whether the listener received it all the same.     *)
Emit(app, event, payload, res, dlv) ==
    [emitted  |-> Append(app.emitted, [event |-> event, payload |-> payload, result |-> res]),
     observed |-> IF app.subscribed /\ (res = "Ok" \/ dlv)
                  THEN Append(app.observed, [event |-> event, payload |-> payload])
                  ELSE app.observed,
     subscribed |-> app.subscribed]

emit_menu_action_unwrap(app, action, res, dlv) ==
    [app |-> Emit(app, "menu-action", action, res, dlv), panicked |-> (res = "Err")]

emit_menu_action_typo(app, action, res, dlv) ==
    [app |-> Emit(app, "menu_action", action, res, dlv), panicked |-> FALSE]

(* emit_menu_action: `let _ = app.emit("menu-action", action);` the Result *)
(* is discarded, the function returns unit.                                *)
emit_menu_action(app, action, res, dlv) ==
    [app |-> Emit(app, "menu-action", action, res, dlv), panicked |-> FALSE]

MatchArm_swapped(id) ==
    CASE id = "menu_settings"   -> <<"menu_settings">>
      [] id = "menu_logs"       -> <<"menu_logs">>
      [] id = "menu_import"     -> <<"menu_import">>
      [] id = "menu_export_glb" -> <<"menu_export_stl">>
      [] id = "menu_export_stl" -> <<"menu_export_stl">>
      [] OTHER                  -> <<>>

MatchArm_forward_all(id) ==
    CASE id = "menu_settings"   -> <<"menu_settings">>
      [] id = "menu_logs"       -> <<"menu_logs">>
      [] id = "menu_import"     -> <<"menu_import">>
      [] id = "menu_export_glb" -> <<"menu_export_glb">>
      [] id = "menu_export_stl" -> <<"menu_export_stl">>
      [] OTHER                  -> <<id>>

MatchArm_missing_stl(id) ==
    CASE id = "menu_settings"   -> <<"menu_settings">>
      [] id = "menu_logs"       -> <<"menu_logs">>
      [] id = "menu_import"     -> <<"menu_import">>
      [] id = "menu_export_glb" -> <<"menu_export_glb">>
      [] OTHER                  -> <<>>

(* The match of the on_menu_event closure: the arguments of the            *)
(* emit_menu_action call of the arm that event.id() selects, none for the  *)
(* `_ => {}` arm.                                                          *)
MatchArm(id) ==
    CASE id = "menu_settings"   -> <<"menu_settings">>
      [] id = "menu_logs"       -> <<"menu_logs">>
      [] id = "menu_import"     -> <<"menu_import">>
      [] id = "menu_export_glb" -> <<"menu_export_glb">>
      [] id = "menu_export_stl" -> <<"menu_export_stl">>
      [] OTHER                  -> <<>>

on_menu_event_dedup(app, id, res, dlv) ==
    LET calls == MatchArm(id) IN
    IF calls = <<>> \/ (app.emitted # <<>> /\ Last(app.emitted).payload = calls[1])
    THEN [app |-> app, panicked |-> FALSE]
    ELSE emit_menu_action(app, calls[1], res, dlv)

(* The on_menu_event closure, run to completion for one menu event.        *)
on_menu_event(app, id, res, dlv) ==
    LET calls == MatchArm(id) IN
    IF calls = <<>>
    THEN [app |-> app, panicked |-> FALSE]
    ELSE emit_menu_action(app, calls[1], res, dlv)

App == [emitted |-> emitted, observed |-> observed, subscribed |-> subscribed]

----------------------------------------------------------------------------
(* Actions *)

Init ==
    /\ pc = "init"
    /\ rejected = {}
    /\ buildLog = <<>>
    /\ menu = NoMenu
    /\ subscribed = FALSE
    /\ clicks = <<>>
    /\ emitted = <<>>
    /\ observed = <<>>
    /\ inflight = [t \in Threads |-> Idle]

(* main: Builder.menu(build_menu) ... .run(ctx).expect(..).  The menu is   *)
(* built during startup; an error of build_menu makes run return Err and   *)
(* expect panics, which ends the process.                                  *)
Startup ==
    /\ pc = "init"
    /\ \E rej \in SUBSET Steps :
         LET r == build_menu(rej) IN
         /\ rejected' = rej
         /\ buildLog' = r.log
         /\ menu' = r.menu
         /\ pc' = IF r.ok THEN "running" ELSE "terminated"
    /\ UNCHANGED <<subscribed, clicks, emitted, observed, inflight>>

(* The front-end attaches its listener to the event channel.               *)
Subscribe ==
    /\ pc = "running"
    /\ ~subscribed
    /\ subscribed' = TRUE
    /\ UNCHANGED <<pc, rejected, buildLog, menu, clicks, emitted, observed, inflight>>

(* The event loop delivers one menu event and runs the handler to its end. *)
MenuEvent ==
    /\ pc = "running"
    /\ Len(clicks) < MaxClicks
    /\ \A t \in Threads : ~inflight[t].busy
    /\ \E id \in Ids, res \in EmitResults, dlv \in BOOLEAN :
         LET r == on_menu_event(App, id, res, dlv) IN
         /\ clicks' = Append(clicks, id)
         /\ emitted' = r.app.emitted
         /\ observed' = r.app.observed
         /\ pc' = IF r.panicked THEN "panicked" ELSE "running"
    /\ UNCHANGED <<rejected, buildLog, menu, subscribed, inflight>>

Next == Startup \/ Subscribe \/ MenuEvent

Spec == Init /\ [][Next]_vars

----------------------------------------------------------------------------
(* Concurrent delivery: handler invocations on several threads, each       *)
(* split at the call of emit_menu_action.                                  *)

Deliver_shared(t, id) ==
    /\ pc = "running"
    /\ Len(clicks) < MaxClicks
    /\ ~inflight[t].busy
    /\ clicks' = Append(clicks, id)
    /\ inflight' = [u \in Threads |->
                      IF u = t THEN [busy |-> TRUE, id |-> id, calls |-> MatchArm(id)]
                      ELSE IF inflight[u].busy /\ inflight[u].calls # <<>> /\ MatchArm(id) # <<>>
                      THEN [inflight[u] EXCEPT !.calls = MatchArm(id)]
                      ELSE inflight[u]]
    /\ UNCHANGED <<pc, rejected, buildLog, menu, subscribed, emitted, observed>>

(* Thread t enters the closure with event.id() = id and selects the arm.   *)
Deliver(t, id) ==
    /\ pc = "running"
    /\ Len(clicks) < MaxClicks
    /\ ~inflight[t].busy
    /\ clicks' = Append(clicks, id)
    /\ inflight' = [inflight EXCEPT ![t] = [busy |-> TRUE, id |-> id, calls |-> MatchArm(id)]]
    /\ UNCHANGED <<pc, rejected, buildLog, menu, subscribed, emitted, observed>>

(* Thread t runs the selected arm and returns from the closure.            *)
Complete(t) ==
    /\ pc = "running"
    /\ inflight[t].busy
    /\ \E res \in EmitResults, dlv \in BOOLEAN :
         LET r == IF inflight[t].calls = <<>>
                  THEN [app |-> App, panicked |-> FALSE]
                  ELSE emit_menu_action(App, inflight[t].calls[1], res, dlv) IN
         /\ emitted' = r.app.emitted
         /\ observed' = r.app.observed
         /\ pc' = IF r.panicked THEN "panicked" ELSE "running"
    /\ inflight' = [inflight EXCEPT ![t] = Idle]
    /\ UNCHANGED <<rejected, buildLog, menu, subscribed, clicks>>

DeliverAny == \E t \in Threads, id \in Ids : Deliver(t, id)
CompleteAny == \E t \in Threads : Complete(t)

NextConc == Startup \/ Subscribe \/ DeliverAny \/ CompleteAny

SpecConc == Init /\ [][NextConc]_vars

----------------------------------------------------------------------------
(* Properties *)

(* The MenuAction identifiers of the specification.                        *)
Recognized == {"menu_settings", "menu_logs", "menu_import", "menu_export_glb",
               "menu_export_stl"}

(* The creation calls of build_menu in evaluation order.                   *)
BuildOrder == <<"GLB", "STL", "Export", "Settings", "Logs", "Import", "File", "Menu">>

IsRecognized(id) == id \in Recognized
RecognizedClicks == SelectSeq(clicks, IsRecognized)
Payloads(s) == [i \in 1..Len(s) |-> s[i].payload]
Texts(s) == [i \in 1..Len(s) |-> s[i].text]
Count(s, x) == Cardinality({i \in 1..Len(s) : s[i] = x})
MenuAction(id) == [event |-> "menu-action", payload |-> id]
IsPrefix(s, t) == Len(s) <= Len(t) /\ SubSeq(t, 1, Len(s)) = s

(* A menu event was delivered in this step; its identifier.                *)
Clicked == clicks' # clicks
ClickedId == Last(clicks')

(* C1: one handler invocation with a recognized identifier emits exactly   *)
(* one event, named "menu-action", whose payload is that identifier.       *)
C1_RecognizedEmitsOnce ==
    [][(Clicked /\ ClickedId \in Recognized) =>
         /\ Len(emitted') = Len(emitted) + 1
         /\ IsPrefix(emitted, emitted')
         /\ Last(emitted').event = "menu-action"
         /\ Last(emitted').payload = ClickedId]_vars

C1_Witness ==
    /\ clicks = <<"menu_settings", "menu_export_glb", "menu_export_stl">>
    /\ Payloads(emitted) = clicks

(* C2: a handler invocation with an identifier that is not recognized      *)
(* emits nothing and returns normally.                                     *)
C2_UnknownIgnored ==
    [][(Clicked /\ ClickedId \notin Recognized) =>
         /\ emitted' = emitted
         /\ observed' = observed
         /\ pc' = "running"]_vars

C2_Witness ==
    /\ clicks = <<"menu_unknown", "menu_export">>
    /\ emitted = <<>>
    /\ pc = "running"

(* C3: every emitted event is named "menu-action" with a recognized        *)
(* payload, and there are never more events than recognized clicks.        *)
C3_EmittedWellFormed ==
    /\ \A i \in 1..Len(emitted) :
         emitted[i].event = "menu-action" /\ emitted[i].payload \in Recognized
    /\ Len(emitted) <= Len(RecognizedClicks)

C3_Witness ==
    /\ Len(clicks) = 3
    /\ Len(RecognizedClicks) = 2
    /\ Len(emitted) = 2

File == menu.items[1]
Export == File.items[4]

(* C4: a built menu has one top-level group "File" with the four children  *)
(* Settings, Logs, Import, Export in that order, Export being a sub-group  *)
(* with the two children GLB, STL in that order.                           *)
C4_MenuShape ==
    menu # NoMenu =>
      /\ menu.kind = "menu"
      /\ Len(menu.items) = 1
      /\ File.kind = "submenu" /\ File.text = "File"
      /\ Len(File.items) = 4
      /\ Texts(File.items) = <<"Settings", "Logs", "Import", "Export">>
      /\ \A i \in 1..3 : File.items[i].kind = "item"
      /\ Export.kind = "submenu"
      /\ Len(Export.items) = 2
      /\ Texts(Export.items) = <<"GLB", "STL">>
      /\ \A i \in 1..2 : Export.items[i].kind = "item"

C4_Witness ==
    /\ pc = "running"
    /\ menu # NoMenu
    /\ buildLog = BuildOrder

RECURSIVE LeafIds(_)
RECURSIVE LeafIdsOf(_)
LeafIdsOf(items) ==
    IF items = <<>> THEN <<>> ELSE LeafIds(items[1]) \o LeafIdsOf(Tail(items))
LeafIds(m) ==
    IF m.kind = "item" THEN <<m.id>> ELSE LeafIdsOf(m.items)

DirectLeaves(m) == SelectSeq(m.items, LAMBDA c : c.kind = "item")
Distinct(s) == \A i, j \in 1..Len(s) : i # j => s[i] # s[j]
Range(s) == {s[i] : i \in 1..Len(s)}
DispatcherRecognized == {id \in Ids : MatchArm(id) # <<>>}

(* C5 as stated: six leaf items, four of them directly in "File".          *)
C5_SixLeaves ==
    menu # NoMenu =>
      /\ Len(LeafIds(menu)) = 6
      /\ Len(DirectLeaves(menu.items[1])) = 4
      /\ Distinct(LeafIds(menu))
      /\ Range(LeafIds(menu)) = DispatcherRecognized

(* C5: a built menu has five leaf items, three directly in "File" and two  *)
(* in "Export"; their identifiers are pairwise distinct and are exactly    *)
(* the identifiers the dispatcher recognizes.                              *)
C5_FiveLeaves ==
    menu # NoMenu =>
      /\ Len(LeafIds(menu)) = 5
      /\ Len(DirectLeaves(menu.items[1])) = 3
      /\ Len(DirectLeaves(menu.items[1].items[4])) = 2
      /\ Distinct(LeafIds(menu))
      /\ Range(LeafIds(menu)) = DispatcherRecognized
      /\ DispatcherRecognized = Recognized

C5_Witness ==
    /\ menu # NoMenu
    /\ LeafIds(menu) = <<"menu_settings", "menu_logs", "menu_import",
                         "menu_export_glb", "menu_export_stl">>

(* A leaf of the built menu was clicked while a listener was attached.     *)
LeafClicked ==
    /\ Clicked
    /\ menu # NoMenu
    /\ ClickedId \in Range(LeafIds(menu))
    /\ subscribed

(* C6 as stated: every click on a leaf of the built menu is observed, as   *)
(* exactly one "menu-action" event with the leaf's identifier, by a        *)
(* listener attached before the click.                                     *)
C6_LeafClickObserved ==
    [][LeafClicked => observed' = Append(observed, MenuAction(ClickedId))]_vars

(* C6: for every click on a leaf of the built menu the dispatcher calls    *)
(* emit exactly once with that leaf's identifier; the listener attached    *)
(* before the click observes exactly that event when the emission          *)
(* succeeds, and at most that event when it fails.                         *)
C6_LeafClickEmitted ==
    [][LeafClicked =>
         /\ Len(emitted') = Len(emitted) + 1
         /\ Last(emitted').event = "menu-action"
         /\ Last(emitted').payload = ClickedId
         /\ (Last(emitted').result = "Ok" =>
               observed' = Append(observed, MenuAction(ClickedId)))
         /\ (observed' = observed \/
               observed' = Append(observed, MenuAction(ClickedId)))]_vars

C6_Witness ==
    /\ subscribed
    /\ clicks = <<"menu_export_glb", "menu_export_stl">>
    /\ observed = <<MenuAction("menu_export_glb"), MenuAction("menu_export_stl")>>

(* C7: the payloads of the emitted events are, in order, the recognized    *)
(* identifiers among the clicks: no invocation depends on an earlier one.  *)
C7_Stateless ==
    /\ Payloads(emitted) = RecognizedClicks
    /\ \A i \in 1..Len(emitted) : emitted[i].event = "menu-action"

C7_Witness ==
    /\ clicks = <<"menu_logs", "menu_unknown", "menu_logs">>
    /\ Len(emitted) = 2

HasFailed(s) == \E i \in 1..Len(s) : s[i].result = "Err"

(* C8: a failed emission is discarded: the handler returns normally after  *)
(* that single attempt, the application keeps running, and recognized      *)
(* clicks after a failure are dispatched as before.                        *)
C8_FailureSwallowed ==
    [][Clicked =>
         /\ (Len(emitted') > Len(emitted) /\ Last(emitted').result = "Err") =>
              /\ pc' = "running"
              /\ Len(emitted') = Len(emitted) + 1
              /\ IsPrefix(emitted, emitted')
         /\ (HasFailed(emitted) /\ ClickedId \in Recognized) =>
              /\ pc = "running"
              /\ Len(emitted') = Len(emitted) + 1
              /\ Last(emitted').payload = ClickedId]_vars

C8_Witness ==
    /\ pc = "running"
    /\ Len(emitted) = 3
    /\ emitted[1].result = "Err"
    /\ emitted[2].result = "Err"
    /\ emitted[3].result = "Ok"

(* C9: build_menu fails exactly when the windowing layer rejects a         *)
(* creation call, at the first such call, attempting each call once and    *)
(* installing no menu; the process then terminates and emits nothing.      *)
C9_BuildFailureFatal ==
    /\ (rejected # {} =>
          /\ pc = "terminated"
          /\ menu = NoMenu
          /\ emitted = <<>> /\ observed = <<>> /\ clicks = <<>>
          /\ \E k \in 1..Len(BuildOrder) :
               /\ buildLog = SubSeq(BuildOrder, 1, k)
               /\ BuildOrder[k] \in rejected
               /\ \A j \in 1..(k - 1) : BuildOrder[j] \notin rejected)
    /\ (pc = "terminated" => rejected # {})
    /\ ((pc # "init" /\ rejected = {}) => (menu # NoMenu /\ buildLog = BuildOrder))

C9_Witness ==
    /\ pc = "terminated"
    /\ rejected = {"Import", "Menu"}
    /\ buildLog = <<"GLB", "STL", "Export", "Settings", "Logs", "Import">>

Pending(id) == Cardinality({t \in Threads : inflight[t].busy /\ inflight[t].id = id})

(* C10: under every interleaving of concurrent handler invocations, each   *)
(* recognized click accounts for exactly one event with its own payload    *)
(* (emitted, or still to be emitted by an invocation in progress), and an  *)
(* invocation in progress can always run to its end.                       *)
C10_ConcurrentDispatch ==
    /\ \A id \in Recognized :
         Count(Payloads(emitted), id) + Pending(id) = Count(clicks, id)
    /\ \A i \in 1..Len(emitted) : emitted[i].payload \in Recognized
    /\ \A t \in Threads : inflight[t].busy => ENABLED Complete(t)

C10_Witness ==
    /\ \A t \in Threads : ~inflight[t].busy
    /\ clicks = <<"menu_export_glb", "menu_unknown", "menu_export_stl">>
    /\ Payloads(emitted) = <<"menu_export_stl", "menu_export_glb">>

====
